---- MODULE Spec2Model ----
(***************************************************************************)
(* The css selector builder of src/src/05-objects-tasks.js: class Builder  *)
(* and the cssSelectorBuilder facade.                                      *)
(*                                                                         *)
(* A builder is a JavaScript object; the model keeps the objects in a heap *)
(* indexed by allocation order.  Builder b has a Map `selectors[b]` (a     *)
(* sequence of key/value entries, in insertion order) and an array         *)
(* `combineStorage[b]`.  A value is either a string or a REFERENCE to a    *)
(* JavaScript array of strings; the arrays live in `arrays`, so that two   *)
(* places holding the same array see each other's pushes, as in the code.  *)
(***************************************************************************)
EXTENDS Integers, Sequences, FiniteSets, TLC

VARIABLES
    selectors,       \* selectors[b]: the Map of builder b, << [key, val], ... >>
    combineStorage,  \* combineStorage[b]: the array of builder b, << val, ... >>
    arrays,          \* arrays[a]: the contents of the JavaScript array a
    last,            \* the call made last: its arguments and its outcome
    failed,          \* the builders on which some call has thrown
    invalid,         \* the builders on which a call has thrown the invalid-order error
    combined,        \* the builders on which combine has been called
    calls,           \* calls[b]: the fragment calls on b that returned normally
    tree,            \* tree[b]: the operands of the facade combine that made b
    nCalls           \* the number of mutating calls made so far

vars == <<selectors, combineStorage, arrays, last, failed, invalid, combined, calls, tree,
          nCalls>>

-----------------------------------------------------------------------------
(* Bounds of the model and the inputs the calls are drawn from.            *)

MaxCalls == 3
MaxChain == 4
MaxClean == 6
MaxNested == 4

Values == {"a", "b"}
Combinators == {" ", "+"}

\* the fragment calls of Spec, as <<method, value>>: string-valued and array-valued
\* kinds, a kind given twice, kinds out of order
Fragments ==
    {<<"element", "a">>, <<"id", "b">>, <<"class", "a">>, <<"class", "b">>,
     <<"attr", "a">>, <<"pseudoElement", "b">>}

\* the fragment calls of SpecNested: a string-valued kind and an array-valued kind
FewFragments == {<<"element", "a">>, <<"class", "b">>}

-----------------------------------------------------------------------------
(* Builder.constructor                                                     *)

defaultOrder == <<"element", "id", "class", "attribute", "pseudoClass", "pseudoElement">>

occurErrorMessage == "occur"
orderErrorMessage == "order"

Kinds == {defaultOrder[i] : i \in 1..Len(defaultOrder)}

-----------------------------------------------------------------------------
(* JavaScript values and the Map and Array operations the code uses.       *)

Str(s) == [t |-> "str", s |-> s, a |-> 0]
Ref(a) == [t |-> "arr", s |-> "", a |-> a]

Range(seq) == {seq[i] : i \in 1..Len(seq)}

\* Map.prototype.keys / values: in insertion order
MapKeys(m) == [i \in 1..Len(m) |-> m[i].key]
MapValues(m) == [i \in 1..Len(m) |-> m[i].val]

\* Map.prototype.has
MapHas(m, k) == \E i \in 1..Len(m) : m[i].key = k

\* Map.prototype.get (of a key the map has)
MapGet(m, k) == m[CHOOSE i \in 1..Len(m) : m[i].key = k].val

\* Map.prototype.set: a new key goes last, a key the map has keeps its place
MapSet(m, k, v) ==
    IF MapHas(m, k)
    THEN [i \in 1..Len(m) |-> IF m[i].key = k THEN [key |-> k, val |-> v] ELSE m[i]]
    ELSE Append(m, [key |-> k, val |-> v])

\* Array.prototype.indexOf, 0-based, -1 when absent
IndexOf(seq, x) ==
    IF x \in Range(seq)
    THEN (CHOOSE i \in 1..Len(seq) : seq[i] = x /\ \A j \in 1..(i-1) : seq[j] # x) - 1
    ELSE -1

\* Array.prototype.flat (depth 1) followed by join(''), over the heap of arrays arrs
RECURSIVE JoinStrings(_)
JoinStrings(strs) ==
    IF strs = <<>> THEN "" ELSE Head(strs) \o JoinStrings(Tail(strs))

RECURSIVE FlatJoin(_, _)
FlatJoin(vals, arrs) ==
    IF vals = <<>> THEN ""
    ELSE (IF Head(vals).t = "str" THEN Head(vals).s ELSE JoinStrings(arrs[Head(vals).a]))
         \o FlatJoin(Tail(vals), arrs)

-----------------------------------------------------------------------------
(* The heap: the three program variables as one value, so that a method is *)
(* an operator from a heap to a heap and an outcome.                       *)

Heap == [selectors |-> selectors, combineStorage |-> combineStorage, arrays |-> arrays]

\* new Builder(): the next object, with an empty Map and an empty array
NewBuilder(h) ==
    [h EXCEPT !.selectors = Append(@, <<>>), !.combineStorage = Append(@, <<>>)]

Builders == 1..Len(selectors)

\* return this / throw new Error(message)
Return(h, this) == [heap |-> h, out |-> "ok", ret |-> this]
Throw(h, message) == [heap |-> h, out |-> message, ret |-> 0]

\* isValidOrder with indexOf taken in defaultOrder instead of currentOrder
isValidOrder_unfiltered(m) ==
    LET keys == MapKeys(m)
        validOrder == \E i \in 1..Len(keys) : (i - 1) > IndexOf(defaultOrder, keys[i])
    IN  ~validOrder

\* isValidOrder that compares the key set last with the key before it only
isValidOrder_lastPair(m) ==
    LET keys == MapKeys(m)
        n == Len(keys)
    IN  n < 2 \/ IndexOf(defaultOrder, keys[n - 1]) < IndexOf(defaultOrder, keys[n])

\* Builder.isValidOrder, on the Map m
isValidOrder(m) ==
    LET keys == MapKeys(m)
        currentOrder == SelectSeq(defaultOrder, LAMBDA selector : selector \in Range(keys))
        validOrder == \E i \in 1..Len(keys) : (i - 1) > IndexOf(currentOrder, keys[i])
    IN  ~validOrder

\* this.selectors.set(k, v)
SetSelector(h, this, k, v) ==
    [h EXCEPT !.selectors[this] = MapSet(@, k, v)]

\* PushSelector that leaves out a string the array already holds
PushSelector_dedup(h, this, k, s) ==
    LET h1 == IF MapHas(h.selectors[this], k) THEN h
              ELSE [h EXCEPT !.arrays = Append(@, <<>>),
                             !.selectors[this] = MapSet(@, k, Ref(Len(h.arrays) + 1))]
        a == MapGet(h1.selectors[this], k).a
    IN  IF s \in Range(h1.arrays[a]) THEN h1 ELSE [h1 EXCEPT !.arrays[a] = Append(@, s)]

\* if (!this.selectors.has(k)) this.selectors.set(k, []);  this.selectors.get(k).push(s)
PushSelector(h, this, k, s) ==
    LET h1 == IF MapHas(h.selectors[this], k) THEN h
              ELSE [h EXCEPT !.arrays = Append(@, <<>>),
                             !.selectors[this] = MapSet(@, k, Ref(Len(h.arrays) + 1))]
        a == MapGet(h1.selectors[this], k).a
    IN  [h1 EXCEPT !.arrays[a] = Append(@, s)]

\* CheckOrder without the check
CheckOrder_skip(h, this) == Return(h, this)

\* if (!this.isValidOrder()) throw ...; return this
CheckOrder(h, this) ==
    IF ~isValidOrder(h.selectors[this]) THEN Throw(h, orderErrorMessage)
    ELSE Return(h, this)

\* element that sets the value before it tests for an element already present
element_setFirst(h, this, value) ==
    IF MapHas(h.selectors[this], "element")
    THEN Throw(SetSelector(h, this, "element", Str(value)), occurErrorMessage)
    ELSE CheckOrder(SetSelector(h, this, "element", Str(value)), this)

\* Builder.element
element(h, this, value) ==
    IF MapHas(h.selectors[this], "element") THEN Throw(h, occurErrorMessage)
    ELSE CheckOrder(SetSelector(h, this, "element", Str(value)), this)

\* id without the test for an id already present
id_overwrite(h, this, value) ==
    CheckOrder(SetSelector(h, this, "id", Str("#" \o value)), this)

\* Builder.id
id(h, this, value) ==
    IF MapHas(h.selectors[this], "id") THEN Throw(h, occurErrorMessage)
    ELSE CheckOrder(SetSelector(h, this, "id", Str("#" \o value)), this)

\* class with the test of the singleton kinds
class_once(h, this, value) ==
    IF MapHas(h.selectors[this], "class") THEN Throw(h, occurErrorMessage)
    ELSE CheckOrder(PushSelector(h, this, "class", "." \o value), this)

\* Builder.class
class(h, this, value) ==
    CheckOrder(PushSelector(h, this, "class", "." \o value), this)

\* Builder.attr
attr(h, this, value) ==
    CheckOrder(PushSelector(h, this, "attribute", "[" \o value \o "]"), this)

\* Builder.pseudoClass
pseudoClass(h, this, value) ==
    CheckOrder(PushSelector(h, this, "pseudoClass", ":" \o value), this)

\* Builder.pseudoElement
pseudoElement(h, this, value) ==
    IF MapHas(h.selectors[this], "pseudoElement") THEN Throw(h, occurErrorMessage)
    ELSE CheckOrder(SetSelector(h, this, "pseudoElement", Str("::" \o value)), this)

\* combine with the bare combinator, not ` ${combinator} `
combine_noSpaces(h, this, selector1, combinator, selector2) ==
    Return([h EXCEPT !.combineStorage[this] =
                @ \o MapValues(h.selectors[selector1])
                  \o <<Str(combinator)>>
                  \o MapValues(h.selectors[selector2])
                  \o h.combineStorage[selector2]],
           this)

\* combine without ...selector2.combineStorage.values()
combine_shallow(h, this, selector1, combinator, selector2) ==
    Return([h EXCEPT !.combineStorage[this] =
                @ \o MapValues(h.selectors[selector1])
                  \o <<Str(" " \o combinator \o " ")>>
                  \o MapValues(h.selectors[selector2])],
           this)

\* combine that takes the combined segments of both operands
combine_symmetric(h, this, selector1, combinator, selector2) ==
    Return([h EXCEPT !.combineStorage[this] =
                @ \o MapValues(h.selectors[selector1])
                  \o h.combineStorage[selector1]
                  \o <<Str(" " \o combinator \o " ")>>
                  \o MapValues(h.selectors[selector2])
                  \o h.combineStorage[selector2]],
           this)

\* combine that pushes selector2.combineStorage itself, without the spread: the
\* entry is that array, [t |-> "storage", a |-> selector2]
combine_unspread(h, this, selector1, combinator, selector2) ==
    Return([h EXCEPT !.combineStorage[this] =
                @ \o MapValues(h.selectors[selector1])
                  \o <<Str(" " \o combinator \o " ")>>
                  \o MapValues(h.selectors[selector2])
                  \o <<[t |-> "storage", s |-> "", a |-> selector2]>>],
           this)

\* Builder.combine
combine(h, this, selector1, combinator, selector2) ==
    Return([h EXCEPT !.combineStorage[this] =
                @ \o MapValues(h.selectors[selector1])
                  \o <<Str(" " \o combinator \o " ")>>
                  \o MapValues(h.selectors[selector2])
                  \o h.combineStorage[selector2]],
           this)

\* stringify without flat(): join('') renders an inner array with commas
RECURSIVE JoinCommas(_)
JoinCommas(strs) ==
    IF strs = <<>> THEN ""
    ELSE IF Len(strs) = 1 THEN Head(strs)
    ELSE Head(strs) \o "," \o JoinCommas(Tail(strs))

RECURSIVE NoFlatJoin(_, _)
NoFlatJoin(vals, arrs) ==
    IF vals = <<>> THEN ""
    ELSE (IF Head(vals).t = "str" THEN Head(vals).s ELSE JoinCommas(arrs[Head(vals).a]))
         \o NoFlatJoin(Tail(vals), arrs)

stringify_noFlat(h, this) ==
    IF Len(h.combineStorage[this]) > 0 THEN NoFlatJoin(h.combineStorage[this], h.arrays)
    ELSE NoFlatJoin(MapValues(h.selectors[this]), h.arrays)

\* Builder.stringify
stringify(h, this) ==
    IF Len(h.combineStorage[this]) > 0 THEN FlatJoin(h.combineStorage[this], h.arrays)
    ELSE FlatJoin(MapValues(h.selectors[this]), h.arrays)

\* The fragment method of the name `method`
Method(method, h, this, value) ==
    CASE method = "element" -> element(h, this, value)
      [] method = "id" -> id(h, this, value)
      [] method = "class" -> class(h, this, value)
      [] method = "attr" -> attr(h, this, value)
      [] method = "pseudoClass" -> pseudoClass(h, this, value)
      [] method = "pseudoElement" -> pseudoElement(h, this, value)

Methods == {"element", "id", "class", "attr", "pseudoClass", "pseudoElement"}

\* The key of the Map under which a method stores its value
KindOf(method) == IF method = "attr" THEN "attribute" ELSE method

-----------------------------------------------------------------------------
(* The state after construction: no builder exists yet.                    *)

NoCall ==
    [op |-> "none", facade |-> FALSE, this |-> 0, method |-> "", value |-> "",
     selector1 |-> 0, combinator |-> "", selector2 |-> 0,
     out |-> "ok", ret |-> 0, result |-> "", again |-> FALSE]

NoTree == [made |-> FALSE, intact |-> FALSE, selector1 |-> 0, combinator |-> "", selector2 |-> 0]

Init ==
    /\ selectors = <<>>
    /\ combineStorage = <<>>
    /\ arrays = <<>>
    /\ last = NoCall
    /\ failed = {}
    /\ invalid = {}
    /\ combined = {}
    /\ calls = <<>>
    /\ tree = <<>>
    /\ nCalls = 0

-----------------------------------------------------------------------------
(* The calls.  r is what the method gave: the heap, the outcome and the    *)
(* builder returned.                                                       *)

Commit(r) ==
    /\ selectors' = r.heap.selectors
    /\ combineStorage' = r.heap.combineStorage
    /\ arrays' = r.heap.arrays

\* b uses x: b is x, or b was made by a facade combine from builders that use x
RECURSIVE Uses(_, _)
Uses(b, x) ==
    \/ b = x
    \/ /\ tree[b].made
       /\ (Uses(tree[b].selector1, x) \/ Uses(tree[b].selector2, x))

\* a mutating call on x: the combinations that use x are no longer intact
Touch(tr, x) ==
    [b \in 1..Len(tr) |-> IF b <= Len(tree) /\ Uses(b, x) THEN [tr[b] EXCEPT !.intact = FALSE]
                          ELSE tr[b]]

\* a fragment method, called on the builder `this` with r its outcome
Fragment(r, facade, this, method, value) ==
    /\ Commit(r)
    /\ last' = [NoCall EXCEPT !.op = "fragment", !.facade = facade, !.this = this,
                              !.method = method, !.value = value,
                              !.out = r.out, !.ret = r.ret]
    /\ failed' = IF r.out = "ok" THEN failed ELSE failed \cup {this}
    /\ invalid' = IF r.out = orderErrorMessage THEN invalid \cup {this} ELSE invalid
    /\ combined' = combined
    /\ calls' = LET c == IF facade THEN Append(calls, <<>>) ELSE calls
                IN  IF r.out = "ok" THEN [c EXCEPT ![this] = Append(@, <<method, value>>)] ELSE c
    /\ tree' = Touch(IF facade THEN Append(tree, NoTree) ELSE tree, this)
    /\ nCalls' = nCalls + 1

\* builder.method(value), on a builder that exists
CallFragment(this, method, value) ==
    /\ this \in Builders
    /\ Fragment(Method(method, Heap, this, value), FALSE, this, method, value)

\* the facade with one Builder made once and used by every call
FacadeFragment_shared(method, value) ==
    IF Len(selectors) = 0
    THEN Fragment(Method(method, NewBuilder(Heap), 1, value), TRUE, 1, method, value)
    ELSE /\ Commit(Method(method, Heap, 1, value))
         /\ last' = [NoCall EXCEPT !.op = "fragment", !.facade = TRUE, !.this = 1,
                                   !.method = method, !.value = value,
                                   !.out = Method(method, Heap, 1, value).out,
                                   !.ret = Method(method, Heap, 1, value).ret]
         /\ nCalls' = nCalls + 1
         /\ UNCHANGED <<failed, invalid, combined, calls, tree>>

\* cssSelectorBuilder.element, .id, .class, .attr, .pseudoClass, .pseudoElement
FacadeFragment(method, value) ==
    LET this == Len(selectors) + 1
    IN  Fragment(Method(method, NewBuilder(Heap), this, value), TRUE, this, method, value)

\* combine, called on the builder `this` with r its outcome
Combine(r, facade, this, selector1, combinator, selector2) ==
    /\ Commit(r)
    /\ last' = [NoCall EXCEPT !.op = "combine", !.facade = facade, !.this = this,
                              !.selector1 = selector1, !.combinator = combinator,
                              !.selector2 = selector2, !.out = r.out, !.ret = r.ret]
    /\ failed' = failed
    /\ invalid' = invalid
    /\ combined' = combined \cup {this}
    /\ calls' = IF facade THEN Append(calls, <<>>) ELSE calls
    /\ tree' = IF facade
               THEN Append(tree, [made |-> TRUE, intact |-> TRUE, selector1 |-> selector1,
                                  combinator |-> combinator, selector2 |-> selector2])
               ELSE Touch(tree, this)
    /\ nCalls' = nCalls + 1

\* builder.combine(selector1, combinator, selector2), on a builder that exists
CallCombine(this, selector1, combinator, selector2) ==
    /\ {this, selector1, selector2} \subseteq Builders
    /\ Combine(combine(Heap, this, selector1, combinator, selector2),
               FALSE, this, selector1, combinator, selector2)

\* cssSelectorBuilder.combine
FacadeCombine(selector1, combinator, selector2) ==
    LET this == Len(selectors) + 1
    IN  /\ {selector1, selector2} \subseteq Builders
        /\ Combine(combine(NewBuilder(Heap), this, selector1, combinator, selector2),
                   TRUE, this, selector1, combinator, selector2)

\* stringify that flattens in place: this.combineStorage = this.combineStorage.flat()
RECURSIVE Flat(_, _)
Flat(vals, arrs) ==
    IF vals = <<>> THEN <<>>
    ELSE (IF Head(vals).t = "str" THEN <<Head(vals)>>
          ELSE [i \in 1..Len(arrs[Head(vals).a]) |-> Str(arrs[Head(vals).a][i])])
         \o Flat(Tail(vals), arrs)

CallStringify_flatInPlace(this) ==
    LET again == last.op = "stringify" /\ last.this = this
    IN  /\ this \in Builders
        /\ ~(again /\ last.again)
        /\ last' = [NoCall EXCEPT !.op = "stringify", !.this = this,
                                  !.result = stringify(Heap, this), !.again = again]
        /\ combineStorage' = [combineStorage EXCEPT ![this] = Flat(@, arrays)]
        /\ UNCHANGED <<selectors, arrays, failed, invalid, combined, calls, tree, nCalls>>

\* builder.stringify()
CallStringify(this) ==
    LET again == last.op = "stringify" /\ last.this = this
    IN  /\ this \in Builders
        /\ ~(again /\ last.again)
        /\ last' = [NoCall EXCEPT !.op = "stringify", !.this = this,
                                  !.result = stringify(Heap, this), !.again = again]
        /\ UNCHANGED <<selectors, combineStorage, arrays, failed, invalid, combined, calls, tree,
                       nCalls>>

-----------------------------------------------------------------------------
(* Spec: any number of builders, every call on every builder.              *)

Next ==
    \/ /\ nCalls < MaxCalls
       /\ \/ \E f \in Fragments : FacadeFragment(f[1], f[2])
          \/ \E this \in Builders, f \in Fragments : CallFragment(this, f[1], f[2])
          \/ \E selector1, selector2 \in Builders, combinator \in Combinators :
                FacadeCombine(selector1, combinator, selector2)
          \/ \E this, selector1, selector2 \in Builders, combinator \in Combinators :
                CallCombine(this, selector1, combinator, selector2)
    \/ \E this \in Builders : CallStringify(this)

Spec == Init /\ [][Next]_vars

(* SpecChain: one chain of calls, cssSelectorBuilder.m1(v1).m2(v2)...  A   *)
(* chain on which no call has thrown grows to MaxClean calls; once a call  *)
(* has thrown, the chain is driven on only while it is shorter than        *)
(* MaxChain.                                                               *)

NextChain ==
    \/ /\ Len(selectors) = 0
       /\ \E method \in Methods, value \in Values : FacadeFragment(method, value)
    \/ /\ nCalls < MaxChain \/ (failed = {} /\ nCalls < MaxClean)
       /\ \E method \in Methods, value \in Values : CallFragment(1, method, value)

SpecChain == Init /\ [][NextChain]_vars

(* SpecNested: combinations of combinations, of builders with few          *)
(* fragments: any builders, fragment calls and combine on every builder.   *)

NextNested ==
    /\ nCalls < MaxNested
    /\ \/ \E f \in FewFragments : FacadeFragment(f[1], f[2])
       \/ \E this \in Builders, f \in FewFragments : CallFragment(this, f[1], f[2])
       \/ \E selector1, selector2 \in Builders, combinator \in Combinators :
             FacadeCombine(selector1, combinator, selector2)
       \/ \E this, selector1, selector2 \in Builders, combinator \in Combinators :
             CallCombine(this, selector1, combinator, selector2)

SpecNested == Init /\ [][NextNested]_vars

(* SpecOrder: one chain that goes on after every error and introduces each *)
(* kind once, so that the Map takes every insertion order of every set of  *)
(* kinds.                                                                  *)

NextOrder ==
    \/ /\ Len(selectors) = 0
       /\ \E method \in Methods, value \in Values : FacadeFragment(method, value)
    \/ \E method \in Methods, value \in Values :
          /\ Len(selectors) = 1
          /\ ~MapHas(selectors[1], KindOf(method))
          /\ CallFragment(1, method, value)

SpecOrder == Init /\ [][NextOrder]_vars

-----------------------------------------------------------------------------
(* The vocabulary of the claims.                                           *)

SingletonMethods == {"element", "id", "pseudoElement"}
RepeatableMethods == {"class", "attr", "pseudoClass"}

\* the place of a kind in the canonical order
Canonical(kind) == IndexOf(defaultOrder, kind)

\* the text a fragment contributes to the selector
Formatted(method, value) ==
    CASE method = "element" -> value
      [] method = "id" -> "#" \o value
      [] method = "class" -> "." \o value
      [] method = "attr" -> "[" \o value \o "]"
      [] method = "pseudoClass" -> ":" \o value
      [] method = "pseudoElement" -> "::" \o value

\* the step made the call last' : a fragment call / a fragment call on a builder that existed
FragmentStep == last'.op = "fragment"

\* the kinds present in the builder of the call last', before that call
KindsBefore == IF last'.facade THEN {} ELSE Range(MapKeys(selectors[last'.this]))

\* the strings stored under the kind k of the Map m, in the heap of arrays arrs
Stored(m, arrs, k) ==
    IF ~MapHas(m, k) THEN <<>>
    ELSE IF MapGet(m, k).t = "str" THEN <<MapGet(m, k).s>> ELSE arrs[MapGet(m, k).a]

\* the fragments of the calls log in the methods ms, formatted, in call order
RECURSIVE Supplied(_, _)
Supplied(log, method) ==
    IF log = <<>> THEN <<>>
    ELSE (IF Head(log)[1] = method THEN <<Formatted(method, Head(log)[2])>> ELSE <<>>)
         \o Supplied(Tail(log), method)

\* a builder made by fragment calls only, all of which returned normally
Leaf(b) == b \in Builders /\ b \notin failed /\ b \notin combined

-----------------------------------------------------------------------------
(* C1: calling element, id or pseudoElement on a builder in which that     *)
(* kind is already present raises the duplicate-occurrence error at that   *)
(* call, whatever else the builder holds and whatever calls, successful or *)
(* failed, came before.                                                    *)

C1_DuplicateThrows ==
    [][(FragmentStep /\ last'.method \in SingletonMethods
            /\ KindOf(last'.method) \in KindsBefore)
        => last'.out = occurErrorMessage]_vars

\* a duplicate raised on a builder that an invalid-order error had left out of order
C1_Witness ==
    /\ last.op = "fragment" /\ last.out = occurErrorMessage
    /\ last.method \in SingletonMethods
    /\ ~isValidOrder(selectors[last.this])

(* C2: on a builder on which every earlier call returned normally, a       *)
(* fragment call that introduces a kind not yet present raises the         *)
(* invalid-order error at that very call if and only if some kind already  *)
(* present comes later than the new kind in the canonical order.           *)

C2_OrderErrorIff ==
    [][(FragmentStep /\ last'.this \notin failed
            /\ KindOf(last'.method) \notin KindsBefore)
        => (last'.out = orderErrorMessage
            <=> \E k \in KindsBefore : Canonical(k) > Canonical(KindOf(last'.method)))]_vars

\* the first error of a chain is an invalid-order error, after two kinds were accepted
C2_Witness ==
    /\ last.op = "fragment" /\ last.out = orderErrorMessage
    /\ Len(calls[last.this]) = 2
    /\ Len(selectors[last.this]) = 3

(* C3: after a chain of fragment calls that all returned normally, the     *)
(* kinds present, in the order they were first introduced, are strictly    *)
(* increasing in the canonical order, and each of element, id and          *)
(* pseudoElement present holds exactly one value: the one of the only call *)
(* for it.                                                                 *)

C3_OrderedAndSingle ==
    \A b \in Builders : b \notin failed =>
        LET keys == MapKeys(selectors[b])
        IN  /\ \A i, j \in 1..Len(keys) : i < j => Canonical(keys[i]) < Canonical(keys[j])
            /\ \A method \in SingletonMethods :
                  /\ Len(Supplied(calls[b], method)) <= 1
                  /\ MapHas(selectors[b], method) =>
                        /\ MapGet(selectors[b], method).t = "str"
                        /\ Supplied(calls[b], method) = <<MapGet(selectors[b], method).s>>

\* a chain that returned normally throughout, with four kinds, one of them given twice
C3_Witness ==
    \E b \in Builders :
        /\ b \notin failed
        /\ Len(selectors[b]) = 4
        /\ Len(calls[b]) = 5
        /\ MapHas(selectors[b], "id") /\ MapHas(selectors[b], "pseudoElement")

(* C4: for a builder that was never the target of combine and on which     *)
(* every fragment call returned normally, stringify() is the concatenation *)
(* with no separator, kind by kind in canonical order, of the element      *)
(* value, '#'+id, '.'+v for each class, '['+v+']' for each attribute,      *)
(* ':'+v for each pseudo-class and '::'+pseudo-element, of the kinds that  *)
(* were supplied.                                                          *)

C4_LeafRendering ==
    \A b \in Builders : Leaf(b) =>
        stringify(Heap, b) =
            JoinStrings(Supplied(calls[b], "element") \o Supplied(calls[b], "id")
                        \o Supplied(calls[b], "class") \o Supplied(calls[b], "attr")
                        \o Supplied(calls[b], "pseudoClass")
                        \o Supplied(calls[b], "pseudoElement"))

\* the six kinds in one selector
C4_Witness ==
    \E b \in Builders : Leaf(b) /\ Len(selectors[b]) = 6 /\ Len(calls[b]) = 6

(* C5: once class (likewise attr, pseudoClass) has returned normally, the  *)
(* next call on that builder, if it is for the same kind, returns normally *)
(* too: calls for one repeatable kind in a row never throw.                *)

C5_RepeatNeverThrows ==
    [][(FragmentStep /\ last.op = "fragment" /\ last.out = "ok"
            /\ last'.this = last.this /\ last'.method = last.method
            /\ last.method \in RepeatableMethods)
        => last'.out = "ok"]_vars

\* three calls for one repeatable kind in a row, after another kind
C5_Witness ==
    /\ last.op = "fragment" /\ last.out = "ok" /\ last.method \in RepeatableMethods
    /\ Len(Stored(selectors[last.this], arrays, KindOf(last.method))) = 3
    /\ Len(selectors[last.this]) = 2

(* C6: a call to class, attr or pseudoClass appends its formatted value at *)
(* the end of that kind's sequence and changes nothing else: the values    *)
(* stored for the kind keep their order, a value equal to an earlier one   *)
(* is stored again, the values of the other kinds are unchanged and the    *)
(* kinds keep their places in the insertion order.                         *)

C6_AppendOnly ==
    [][(FragmentStep /\ last'.method \in RepeatableMethods) =>
        LET this == last'.this
            kind == KindOf(last'.method)
            before == IF last'.facade THEN <<>> ELSE selectors[this]
            after == selectors'[this]
        IN  /\ Stored(after, arrays', kind)
                  = Append(Stored(before, arrays, kind), Formatted(last'.method, last'.value))
            /\ MapKeys(after) = IF MapHas(before, kind) THEN MapKeys(before)
                                ELSE Append(MapKeys(before), kind)
            /\ \A k \in Range(MapKeys(before)) \ {kind} :
                  Stored(after, arrays', k) = Stored(before, arrays, k)
            /\ combineStorage'[this] = IF last'.facade THEN <<>> ELSE combineStorage[this]]_vars

\* a value stored a second time, after a different one
C6_Witness ==
    /\ last.op = "fragment" /\ last.method \in RepeatableMethods
    /\ LET vs == Stored(selectors[last.this], arrays, KindOf(last.method))
       IN  Len(vs) = 3 /\ vs[1] = vs[3] /\ vs[1] # vs[2]

-----------------------------------------------------------------------------
(* Combinations.  tree[b] names the operands of the facade combine that    *)
(* made b; it is intact as long as no mutating call was made on b or on a  *)
(* builder b was made from.                                                *)

Token(combinator) == " " \o combinator \o " "

Made(b) == b \in Builders /\ tree[b].made /\ tree[b].intact

\* b is a leaf, or combine(leaf, c, right-nested)
RECURSIVE RightNested(_)
RightNested(b) ==
    IF tree[b].made
    THEN Made(b) /\ Leaf(tree[b].selector1) /\ RightNested(tree[b].selector2)
    ELSE Leaf(b)

\* the leaves of a right-nested combination, rendered and joined by the tokens
RECURSIVE Expand(_)
Expand(b) ==
    IF tree[b].made
    THEN stringify(Heap, tree[b].selector1) \o Token(tree[b].combinator)
         \o Expand(tree[b].selector2)
    ELSE stringify(Heap, b)

(* C7: for leaf builders A and B and a combinator c,                       *)
(* cssSelectorBuilder.combine(A, c, B).stringify() is A.stringify(), one   *)
(* space, c, one space, B.stringify(); with c a space that is three spaces.*)

C7_CombineRendering ==
    \A b \in Builders :
        (Made(b) /\ Leaf(tree[b].selector1) /\ Leaf(tree[b].selector2)) =>
            stringify(Heap, b) = stringify(Heap, tree[b].selector1)
                                 \o " " \o tree[b].combinator \o " "
                                 \o stringify(Heap, tree[b].selector2)

\* two different leaves joined by the space combinator
C7_Witness ==
    \E b \in Builders :
        /\ Made(b) /\ Leaf(tree[b].selector1) /\ Leaf(tree[b].selector2)
        /\ tree[b].selector1 # tree[b].selector2
        /\ tree[b].combinator = " "
        /\ stringify(Heap, b) # stringify(Heap, tree[b].selector2)
                                \o "   " \o stringify(Heap, tree[b].selector1)

(* C8: a right-nested combination renders every level:                     *)
(* combine(A, c1, combine(B, c2, C)).stringify() is A.stringify(), ' c1 ', *)
(* B.stringify(), ' c2 ', C.stringify() for leaves A, B, C, and likewise   *)
(* for deeper nesting on the right.                                        *)

C8_NestedRendering ==
    \A b \in Builders :
        (Made(b) /\ tree[tree[b].selector2].made /\ RightNested(b)) =>
            stringify(Heap, b) = Expand(b)

\* a combination inside a combination, with two different combinators
C8_Witness ==
    \E b \in Builders :
        /\ Made(b) /\ tree[tree[b].selector2].made /\ RightNested(b)
        /\ tree[b].combinator # tree[tree[b].selector2].combinator

(* C9: stringify() leaves the fragments and the combined segments of every *)
(* builder as they were, and a second stringify() on the same builder with *)
(* no mutating call in between returns the same string.                    *)

C9_StringifyPure ==
    [][last'.op = "stringify" =>
        /\ selectors' = selectors
        /\ combineStorage' = combineStorage
        /\ arrays' = arrays
        /\ (last.op = "stringify" /\ last.this = last'.this) => last'.result = last.result]_vars

\* stringify() twice in a row on a combination that holds an array
C9_Witness ==
    /\ last.op = "stringify" /\ last.again
    /\ last.this \in combined
    /\ \E i \in 1..Len(combineStorage[last.this]) : combineStorage[last.this][i].t = "arr"

(* C10: a mutating call on one builder never changes what stringify()      *)
(* returns on another builder; in particular fragment calls on A or B      *)
(* after R = combine(A, c, B) leave R.stringify() unchanged.               *)

C10_NoSharedState ==
    [][\A b \in Builders :
        (last'.op \in {"fragment", "combine"} /\ last'.this # b)
            => stringify(Heap, b)' = stringify(Heap, b)]_vars

-----------------------------------------------------------------------------
(* C11: a fragment method or combine that returns normally returns the     *)
(* builder it was called on; a call of the facade starts from a builder    *)
(* made for it, with no fragments and no combined segments, so that what   *)
(* it gives depends on its arguments alone and not on earlier chains.      *)

C11_ReturnsThisFacadeFresh ==
    /\ (last.op \in {"fragment", "combine"} /\ last.out = "ok") => last.ret = last.this
    /\ last.facade =>
        LET this == last.this
        IN  /\ this = Len(selectors)
            /\ last.out = "ok"
            /\ last.op = "fragment" =>
                  /\ MapKeys(selectors[this]) = <<KindOf(last.method)>>
                  /\ Stored(selectors[this], arrays, KindOf(last.method))
                        = <<Formatted(last.method, last.value)>>
                  /\ combineStorage[this] = <<>>
            /\ last.op = "combine" =>
                  /\ selectors[this] = <<>>
                  /\ combineStorage[this]
                        = MapValues(selectors[last.selector1])
                          \o <<Str(Token(last.combinator))>>
                          \o MapValues(selectors[last.selector2])
                          \o combineStorage[last.selector2]

\* a facade call after an earlier chain has thrown
C11_Witness ==
    /\ last.facade /\ last.op = "fragment" /\ last.ret = last.this
    /\ last.this = 2
    /\ invalid = {1}

(* C12: once combine has been called on a builder, its combined segments   *)
(* are non-empty from then on, and a later fragment call on that builder,  *)
(* whether it returns normally or throws, leaves its stringify() result    *)
(* unchanged.                                                              *)

C12_CombinedRenderingFixed ==
    [][/\ \A b \in combined' : Len(combineStorage'[b]) > 0
       /\ \A b \in combined :
            (FragmentStep /\ last'.this = b) => stringify(Heap, b)' = stringify(Heap, b)]_vars

(* C13: an invalid-order error leaves the builder partially mutated and    *)
(* permanently invalid: the fragment of the offending call is stored, and  *)
(* from then on every fragment call on that builder raises an error, the   *)
(* duplicate-occurrence error for a singleton kind already present and the *)
(* invalid-order error otherwise.                                          *)

C13_PermanentlyInvalid ==
    [][FragmentStep =>
        LET this == last'.this
            kind == KindOf(last'.method)
            before == IF last'.facade THEN <<>> ELSE selectors[this]
        IN  /\ last'.out = orderErrorMessage =>
                  /\ this \in invalid'
                  /\ Stored(selectors'[this], arrays', kind)
                        = Append(Stored(before, arrays, kind),
                                 Formatted(last'.method, last'.value))
            /\ this \in invalid =>
                  last'.out = IF last'.method \in SingletonMethods /\ kind \in KindsBefore
                              THEN occurErrorMessage ELSE orderErrorMessage]_vars

\* the third call in a row to throw, after the one call that returned normally
C13_Witness ==
    /\ last.op = "fragment" /\ last.out = orderErrorMessage
    /\ last.this \in invalid
    /\ Len(calls[last.this]) = 1 /\ nCalls = 4
    /\ Len(selectors[last.this]) = 4

(* C14: the order check is sequence equality: for every insertion order of *)
(* every set of kinds, isValidOrder reports a violation if and only if the *)
(* insertion sequence differs from presentOrder, the canonical order       *)
(* filtered to the kinds present.                                          *)

PresentOrder(keys) == SelectSeq(defaultOrder, LAMBDA kind : kind \in Range(keys))

C14_OrderCheckIsEquality ==
    \A b \in Builders :
        LET keys == MapKeys(selectors[b])
        IN  /\ ~isValidOrder(selectors[b]) <=> keys # PresentOrder(keys)
            /\ b \in invalid <=> keys # PresentOrder(keys)

\* the six kinds, in canonical order but for the last two
C14_Witness ==
    /\ Len(selectors) = 1
    /\ MapKeys(selectors[1])
         = <<"element", "id", "class", "attribute", "pseudoElement", "pseudoClass">>
    /\ ~isValidOrder(selectors[1])
    /\ Len(calls[1]) = 5

(* C16: a fragment call that raises the duplicate-occurrence error leaves  *)
(* the builder as it was: the same kinds in the same insertion order, the  *)
(* same values (the first value of the singleton is kept), the same        *)
(* combined segments, hence the same stringify() result.                   *)

C16_DuplicateLeavesBuilder ==
    [][(FragmentStep /\ last'.out = occurErrorMessage) =>
        /\ selectors' = selectors
        /\ combineStorage' = combineStorage
        /\ arrays' = arrays
        /\ \A b \in Builders : stringify(Heap, b)' = stringify(Heap, b)]_vars

\* a duplicate call with a value other than the one stored
C16_Witness ==
    /\ last.op = "fragment" /\ last.out = occurErrorMessage
    /\ Stored(selectors[last.this], arrays, KindOf(last.method))
         # <<Formatted(last.method, last.value)>>
    /\ Len(selectors[last.this]) = 3

(* C15: combine is asymmetric: from the left operand it takes the          *)
(* fragments and never the combined segments, from the right operand the   *)
(* fragments followed by the combined segments; so when the left operand L *)
(* is a combine result with no fragments of its own,                       *)
(* combine(L, c, B).stringify() is ' '+c+' ' followed by B's rendering and *)
(* contains nothing of L.                                                  *)

\* the call made last was cssSelectorBuilder.combine(L, c, B), L a combine result
\* with no fragments
CombineOfCombined ==
    /\ last.op = "combine" /\ last.facade
    /\ last.selector1 \in combined
    /\ selectors[last.selector1] = <<>>

\* what the call made last took from its operands
TakesLeftFragmentsRightAll ==
    (last.op = "combine" /\ last.facade) =>
        combineStorage[last.this]
            = MapValues(selectors[last.selector1])
              \o <<Str(" " \o last.combinator \o " ")>>
              \o MapValues(selectors[last.selector2])
              \o combineStorage[last.selector2]

\* the claim as stated: for every right operand B
C15_AsymmetricCombine ==
    /\ TakesLeftFragmentsRightAll
    /\ CombineOfCombined =>
          stringify(Heap, last.this)
              = " " \o last.combinator \o " " \o stringify(Heap, last.selector2)

\* the claim as amended: B's fragments, then B's combined segments; that is B's
\* rendering when B does not hold both
C15_AsymmetricCombineAmended ==
    /\ TakesLeftFragmentsRightAll
    /\ CombineOfCombined =>
          LET B == last.selector2
          IN  /\ stringify(Heap, last.this)
                    = " " \o last.combinator \o " "
                      \o FlatJoin(MapValues(selectors[B]), arrays)
                      \o FlatJoin(combineStorage[B], arrays)
              /\ (selectors[B] = <<>> \/ combineStorage[B] = <<>>) =>
                    stringify(Heap, last.this)
                        = " " \o last.combinator \o " " \o stringify(Heap, B)

\* L a combination of fragments, B a builder with fragments and combined segments
C15_Witness ==
    /\ CombineOfCombined
    /\ stringify(Heap, last.selector1) # ""
    /\ selectors[last.selector2] # <<>>
    /\ combineStorage[last.selector2] # <<>>

(* C17: with string fragment values and combinators, each entry of a       *)
(* builder's combined segments is a string or a sequence of strings, never *)
(* a sequence that contains a sequence, whatever the depth of nesting and  *)
(* whichever builders were the operands; so the one-level flattening of    *)
(* stringify() yields strings only.                                        *)

\* v is a string
IsString(v) == v.t = "str"

\* v is an array of strings: an array of a repeatable kind (the methods push strings
\* only), or the combined segments of a builder when these are all strings
IsArrayOfStrings(v) ==
    \/ v.t = "arr" /\ v.a \in 1..Len(arrays)
    \/ /\ v.t = "storage"
       /\ \A i \in 1..Len(combineStorage[v.a]) : IsString(combineStorage[v.a][i])

C17_SegmentsAtMostOneDeep ==
    \A b \in Builders : \A i \in 1..Len(combineStorage[b]) :
        IsString(combineStorage[b][i]) \/ IsArrayOfStrings(combineStorage[b][i])

\* a combination of a combination holds an array that came with the inner segments
C17_Witness ==
    \E b \in Builders :
        /\ tree[b].made /\ tree[tree[b].selector2].made
        /\ LET inner == combineStorage[tree[b].selector2]
               n == Len(combineStorage[b])
           IN  /\ Len(inner) > 0 /\ n > Len(inner)
               /\ SubSeq(combineStorage[b], n - Len(inner) + 1, n) = inner
               /\ \E i \in 1..Len(inner) : inner[i].t = "arr"

====
